---- MODULE Spec2Model ----
(***************************************************************************)
(* Remix assembly pipeline: server/tts_processor.py (speech synthesis with *)
(* retry and mock fallback) and server/video_processor.py (per-segment     *)
(* muxing, ordered concatenation, partial-failure recovery).               *)
(*                                                                         *)
(* The two scripts are separate processes; `program` says which one the    *)
(* behaviour is about.  File names are tuples of strings: the tuple        *)
(* <<"/", "voices", "a.mp3">> is the string "/voices/a.mp3".               *)
(***************************************************************************)
EXTENDS Integers, Sequences, FiniteSets, TLC

VARIABLES
    program,            \* "tts" or "video": the script that runs
    \* ---- tts_processor.py
    FISH_SDK_AVAILABLE, \* module constant set at import (lines 9-16)
    AudioSegment,       \* TRUE when pydub was imported (lines 18-24)
    tts_pc,             \* position inside generate_tts
    character,          \* argument of generate_tts
    text_arg,           \* len(text) of the text the caller passed
    text,               \* the local `text`, rebound by the truncation of line 72
    api_key,            \* TRUE when a key is given or found in the environment
    max_retries,        \* argument of generate_tts
    attempt,            \* loop variable of line 74
    filename,           \* filename of the current attempt (line 82)
    file_size,          \* os.path.getsize(output_path) (line 120)
    voices,             \* file name -> content, for the files written to VOICES_DIR
    outcomes,           \* outcome of each remote attempt, in order
    remoteCalls,        \* number of requests made to the remote service
    submitted,          \* the text of each TTSRequest, in order
    mockCalls,          \* number of calls of generate_mock_tts
    mockPath,           \* what generate_mock_tts returned
    returned,           \* what generate_tts returned
    calls,              \* number of calls of generate_tts so far
    earlier,            \* what the call before this one returned, and how
    \* ---- video_processor.py
    v_pc,               \* position inside process_video
    remix_id,           \* argument of process_video
    audio_files,        \* argument of process_video (a dict, mutated in place)
    pending,            \* keys of audio_files the loop of line 186 has not seen
    idx,                \* position of the loop of line 201 in `sequence`
    segment_videos,     \* list built by the loop of line 201
    dirs,               \* directories the job made that exist
    files,              \* file name -> content, for the files the job wrote
    muxLog,             \* calls of create_video_with_audio: <<char, returned>>
    lastMux,            \* the inputs and probes of the last segment written
    concat_list_path,   \* the manifest concat_videos made (line 124)
    m_pc,               \* where a run of a script is
    argv,               \* what the command line holds
    installed,          \* the optional modules that can be imported
    sys_stdout,         \* the stream sys.stdout is bound to
    streams,            \* what was written to stdout, to stderr and to the log file
    exit_code,          \* the status the run ends with
    job,                \* which of two concurrent jobs of process_video is running
    other,              \* the local variables of the job that is not running
    concatArgs,         \* the video_paths of each call of concat_videos
    concatReturned,     \* what each call of concat_videos returned
    copyLog,            \* calls of shutil.copy: <<src, succeeded>>
    rmtreeFailed,       \* TRUE when shutil.rmtree raised (line 240)
    raisedError,        \* the exception caught at line 251, or "none"
    result              \* what process_video returned

ttsVars == <<FISH_SDK_AVAILABLE, AudioSegment, tts_pc, character, text_arg, text,
             api_key, max_retries, attempt, filename, file_size, voices, outcomes,
             remoteCalls, submitted, mockCalls, mockPath, returned, calls, earlier>>

videoVars == <<v_pc, remix_id, audio_files, pending, idx, segment_videos, dirs,
               files, muxLog, lastMux, concat_list_path, concatArgs, concatReturned, copyLog, rmtreeFailed,
               raisedError, result>>

\* the state of a run of one of the two scripts
mainVars == <<m_pc, argv, installed, sys_stdout, streams, exit_code>>

\* two jobs of process_video at a time
jobVars == <<job, other>>

vars == <<program, ttsVars, videoVars, mainVars, jobVars>>

-----------------------------------------------------------------------------
(* Bounds of the model *)

MaxRetriesBound == 3    \* max_retries ranges over 0..MaxRetriesBound
NumFileIds == 2         \* uuid4()[:8] ranges over the first NumFileIds of FileIdPool
NumRemixIds == 2        \* remix_id ranges over the first NumRemixIds of RemixIdPool
MaxDuration == 2        \* clips and voice lines last 1..MaxDuration seconds

(* Program constants *)

MaxTextLen == 200       \* line 68
TruncKeep == 197        \* line 72
SizeThreshold == 200000 \* line 121
ShortTextLen == 100     \* line 121
EllipsisLen == 3        \* line 72: len("...")
MsPerChar == 333        \* line 170
MinDurationMs == 1000   \* line 173

-----------------------------------------------------------------------------
(* tts_processor.py *)

NoFile == <<>>

Characters == {"trump", "zelensky", "vance", "narrator"}

FISH_VOICE_MAPPING ==
    [c \in {"trump", "zelensky", "vance"} |->
        CASE c = "trump" -> "e58b0d7efca34eb38d5c4985e378abcb"
          [] c = "zelensky" -> "6be22288f35f4e9b964bdbeb099baee1"
          [] c = "vance" -> "86d3aee7cd9b4aab8cd8e54c3d35492b"]

\* a lookup that falls back to the first voice model
VoiceReference_Default(c) ==
    IF c \in DOMAIN FISH_VOICE_MAPPING THEN FISH_VOICE_MAPPING[c]
    ELSE FISH_VOICE_MAPPING["trump"]

\* FISH_VOICE_MAPPING.get(character): "" stands for None
VoiceReference(c) ==
    IF c \in DOMAIN FISH_VOICE_MAPPING THEN FISH_VOICE_MAPPING[c] ELSE ""

TextLens == {0, 99, 100, 200, 201, 250}

FileSizes == {0, 200000, 200001}

FileIdPool == <<"0a1b2c3d", "4e5f6a7b", "8c9d0e1f", "2a3b4c5d">>

\* str(uuid4()).replace("-", "")[:8]: random, so two draws may coincide
FileIds == {FileIdPool[i] : i \in 1..NumFileIds}

\* f"{character}_{file_id}.mp3"
Filename(c, id) == <<c, "_", id, ".mp3">>

\* f"/voices/{filename}"
VoicesUrl(fn) == <<"/", "voices">> \o fn

\* A text is written as the number of leading characters of the caller's text
\* it keeps and the number of full stops that follow them.
Text(n) == [kept |-> n, dots |-> 0]

\* len(text)
TextLen(t) == t.kept + t.dots

Min(a, b) == IF a <= b THEN a ELSE b

Max(a, b) == IF a >= b THEN a ELSE b

\* a truncation that slices at the limit and adds nothing
Truncate_Slice(t) ==
    IF TextLen(t) > MaxTextLen THEN [kept |-> MaxTextLen, dots |-> 0] ELSE t

\* lines 68-72: text[:197] + "..." when len(text) > 200
Truncate(t) ==
    IF TextLen(t) > MaxTextLen
    THEN [kept |-> Min(TruncKeep, t.kept), dots |-> EllipsisLen]
    ELSE t

\* a duration without the floor of one second
duration_ms_NoFloor(n) == n * MsPerChar

\* lines 170-173: len(text) * 333, at least 1000
duration_ms(n) == Max(MinDurationMs, n * MsPerChar)

\* what a file of VOICES_DIR holds
RemoteAudio(size) == [kind |-> "remote", size |-> size]

PartialFile == [kind |-> "partial"]

SilentAudio(d) == [kind |-> "silence", duration_ms |-> d]

EmptyFile == [kind |-> "empty"]

NoVoices == [f \in {} |-> EmptyFile]

\* lines 167-181: what generate_mock_tts writes for a text of n characters
MockContent(hasPydub, n) ==
    IF hasPydub THEN SilentAudio(duration_ms(n)) ELSE EmptyFile

NoContent == [kind |-> "none"]

NoEarlier == [returned |-> NoFile, mock |-> FALSE, content |-> NoContent]

\* the file a returned "/voices/<filename>" names
FileOfUrl(url) == SubSeq(url, 3, Len(url))

\* what VOICES_DIR holds under the name a call returned
ContentOf(fs, url) ==
    IF FileOfUrl(url) \in DOMAIN fs THEN fs[FileOfUrl(url)] ELSE NoContent

\* line 74: range(max_retries)
RetryRange_OffByOne(m) == 0..m

RetryRange(m) == 0..(m - 1)

WriteVoice(fs, f, c) == [g \in DOMAIN fs \cup {f} |-> IF g = f THEN c ELSE fs[g]]

\* line 127: os.remove(output_path)
RemoveVoice(fs, f) == [g \in DOMAIN fs \ {f} |-> fs[g]]

\* line 121: the plausibility check fails
Suspicious(size, n) == size > SizeThreshold /\ n < ShortTextLen

-----------------------------------------------------------------------------
(* generate_tts, lines 44-146 *)

\* the caller's call: generate_tts(character, text, api_key, max_retries)
generate_tts_call ==
    /\ program = "tts"
    /\ tts_pc = "idle"
    /\ \E c \in Characters, n \in TextLens, k \in BOOLEAN, m \in 0..MaxRetriesBound :
        /\ character' = c
        /\ text_arg' = n
        /\ text' = Text(n)
        /\ api_key' = k
        /\ max_retries' = m
    /\ tts_pc' = "check_key"
    /\ calls' = calls + 1
    /\ UNCHANGED <<program, mainVars, jobVars, FISH_SDK_AVAILABLE, AudioSegment, earlier,
                   submitted, attempt, filename,
                   file_size, voices, outcomes, remoteCalls, mockCalls, mockPath,
                   returned, videoVars>>

\* lines 58-72: no key or no SDK: the mock; else truncate and enter the loop
generate_tts_check_key ==
    /\ tts_pc = "check_key"
    /\ IF ~api_key \/ ~FISH_SDK_AVAILABLE
       THEN /\ tts_pc' = "mock"
            /\ UNCHANGED text
       ELSE /\ text' = Truncate(text)
            /\ tts_pc' = "loop"
    /\ attempt' = 0
    /\ UNCHANGED <<program, mainVars, jobVars, FISH_SDK_AVAILABLE, AudioSegment, earlier,
                   text_arg, submitted, calls, character, api_key,
                   max_retries, filename, file_size, voices, outcomes, remoteCalls,
                   mockCalls, mockPath, returned, videoVars>>

\* line 74: the next iteration, or lines 144-146 when the range is exhausted
generate_tts_loop ==
    /\ tts_pc = "loop"
    /\ tts_pc' = IF attempt \in RetryRange(max_retries) THEN "attempt" ELSE "mock"
    /\ UNCHANGED <<program, mainVars, jobVars, FISH_SDK_AVAILABLE, AudioSegment, earlier,
                   text_arg, submitted, calls, character, text,
                   api_key, max_retries, attempt, filename, file_size, voices,
                   outcomes, remoteCalls, mockCalls, mockPath, returned, videoVars>>

\* lines 80-92: a fresh filename; no voice model for the character: the mock
generate_tts_attempt ==
    /\ tts_pc = "attempt"
    /\ \E id \in FileIds : filename' = Filename(character, id)
    /\ tts_pc' = IF VoiceReference(character) = "" THEN "mock" ELSE "remote"
    /\ UNCHANGED <<program, mainVars, jobVars, FISH_SDK_AVAILABLE, AudioSegment, earlier,
                   text_arg, submitted, calls, character, text,
                   api_key, max_retries, attempt, file_size, voices, outcomes,
                   remoteCalls, mockCalls, mockPath, returned, videoVars>>

\* lines 98-120: the request to the remote service, streamed into output_path.
\* It raises before the file is opened, or while chunks are written (the file
\* stays), or completes with a file of some size.
generate_tts_remote ==
    /\ tts_pc = "remote"
    /\ remoteCalls' = remoteCalls + 1
    /\ submitted' = Append(submitted, text)
    /\ \/ /\ tts_pc' = "except"
          /\ outcomes' = Append(outcomes, "error")
          /\ UNCHANGED <<voices, file_size>>
       \/ /\ tts_pc' = "except"
          /\ outcomes' = Append(outcomes, "error")
          /\ voices' = WriteVoice(voices, filename, PartialFile)
          /\ UNCHANGED file_size
       \/ /\ tts_pc' = "check_size"
          /\ \E size \in FileSizes :
               /\ file_size' = size
               /\ voices' = WriteVoice(voices, filename, RemoteAudio(size))
          /\ UNCHANGED outcomes
    /\ UNCHANGED <<program, mainVars, jobVars, FISH_SDK_AVAILABLE, AudioSegment, earlier,
                   text_arg, calls, character, text,
                   api_key, max_retries, attempt, filename, mockCalls, mockPath,
                   returned, videoVars>>

\* lines 121-134: the plausibility check
generate_tts_check_size ==
    /\ tts_pc = "check_size"
    /\ IF Suspicious(file_size, TextLen(text))
       THEN /\ outcomes' = Append(outcomes, "implausible")
            /\ IF attempt < max_retries - 1
               THEN /\ voices' = RemoveVoice(voices, filename)
                    /\ attempt' = attempt + 1
                    /\ tts_pc' = "loop"
               ELSE /\ tts_pc' = "mock"
                    /\ UNCHANGED <<voices, attempt>>
            /\ UNCHANGED returned
       ELSE /\ outcomes' = Append(outcomes, "plausible")
            /\ returned' = VoicesUrl(filename)
            /\ tts_pc' = "returned"
            /\ UNCHANGED <<voices, attempt>>
    /\ UNCHANGED <<program, mainVars, jobVars, FISH_SDK_AVAILABLE, AudioSegment, earlier,
                   text_arg, submitted, calls, character, text,
                   api_key, max_retries, filename, file_size, remoteCalls,
                   mockCalls, mockPath, videoVars>>

\* a handler that lets the error of the last attempt out of generate_tts
generate_tts_except_Reraise ==
    /\ tts_pc = "except"
    /\ IF attempt < max_retries - 1
       THEN attempt' = attempt + 1 /\ tts_pc' = "loop"
       ELSE attempt' = attempt /\ tts_pc' = "raised"
    /\ UNCHANGED <<program, mainVars, jobVars, FISH_SDK_AVAILABLE, AudioSegment, earlier,
                   text_arg, submitted, calls, character, text,
                   api_key, max_retries, filename, file_size, voices, outcomes,
                   remoteCalls, mockCalls, mockPath, returned, videoVars>>

\* lines 136-146: retry while attempts remain, else break to the mock
generate_tts_except ==
    /\ tts_pc = "except"
    /\ IF attempt < max_retries - 1
       THEN attempt' = attempt + 1 /\ tts_pc' = "loop"
       ELSE attempt' = attempt /\ tts_pc' = "mock"
    /\ UNCHANGED <<program, mainVars, jobVars, FISH_SDK_AVAILABLE, AudioSegment, earlier,
                   text_arg, submitted, calls, character, text,
                   api_key, max_retries, filename, file_size, voices, outcomes,
                   remoteCalls, mockCalls, mockPath, returned, videoVars>>

\* lines 149-189, called at lines 65, 92, 131 and 146, each time as
\* `return generate_mock_tts(character, text)`.  The export (or the open)
\* succeeds and the file exists, or it raises, before or after the file was
\* created, and line 189 returns a name drawn afresh.
generate_mock_tts ==
    /\ tts_pc = "mock"
    /\ mockCalls' = mockCalls + 1
    /\ \E id \in FileIds :
        \/ /\ voices' = WriteVoice(voices, Filename(character, id),
                                   MockContent(AudioSegment, TextLen(text)))
           /\ mockPath' = VoicesUrl(Filename(character, id))
        \/ /\ voices' \in {voices,
                            WriteVoice(voices, Filename(character, id), PartialFile)}
           /\ \E id2 \in FileIds : mockPath' = VoicesUrl(Filename(character, id2))
    /\ returned' = mockPath'
    /\ tts_pc' = "returned"
    /\ UNCHANGED <<program, mainVars, jobVars, FISH_SDK_AVAILABLE, AudioSegment, earlier,
                   text_arg, submitted, calls, character, text,
                   api_key, max_retries, attempt, filename, file_size, outcomes,
                   remoteCalls, videoVars>>

\* a second call of generate_tts with the same character and text (as
\* generate_all_tts makes for equal lines, line 227, or a later request); the
\* files of the first call are still in VOICES_DIR
generate_tts_again ==
    /\ program = "tts"
    /\ tts_pc = "returned"
    /\ calls = 1
    /\ earlier' = [returned |-> returned, mock |-> mockCalls = 1,
                   content |-> ContentOf(voices, returned)]
    /\ \E k \in BOOLEAN, m \in 0..MaxRetriesBound :
        /\ api_key' = k
        /\ max_retries' = m
    /\ text' = Text(text_arg)
    /\ calls' = calls + 1
    /\ attempt' = 0
    /\ filename' = NoFile
    /\ file_size' = 0
    /\ outcomes' = <<>>
    /\ remoteCalls' = 0
    /\ submitted' = <<>>
    /\ mockCalls' = 0
    /\ mockPath' = NoFile
    /\ returned' = NoFile
    /\ tts_pc' = "check_key"
    /\ UNCHANGED <<program, mainVars, jobVars, FISH_SDK_AVAILABLE, AudioSegment, character, text_arg,
                   voices, videoVars>>

NextTTS ==
    \/ generate_tts_call
    \/ generate_tts_check_key
    \/ generate_tts_loop
    \/ generate_tts_attempt
    \/ generate_tts_remote
    \/ generate_tts_check_size
    \/ generate_tts_except
    \/ generate_mock_tts

-----------------------------------------------------------------------------
(* video_processor.py: names of files and directories *)

RemixIdPool == <<"101", "102", "103", "104">>

\* a remix id as the caller's JSON gives it: a string, or a number
StrId(t) == [type |-> "str", text |-> t]

IntId(t) == [type |-> "int", text |-> t]

NoRemixId == [type |-> "none", text |-> ""]

RemixIds == {StrId(RemixIdPool[i]) : i \in 1..NumRemixIds}
                \cup {IntId(RemixIdPool[1])}

\* lines 178 and 182: {remix_id} in an f-string is str(remix_id), the digits
\* of a number and the characters of a string
Format(id) == id.text

\* the working directory of the process; BASE_DIR is absolute (line 22)
CWD == <<"/", "app">>

STATIC_DIR == CWD \o <<"static">>

VIDEOS_DIR == STATIC_DIR \o <<"videos">>

CLIPS_DIR == STATIC_DIR \o <<"clips">>

TEMP_DIR == STATIC_DIR \o <<"temp">>

LineIds == {"trump1", "zelensky", "trump2", "vance"}

\* lines 34-39
VIDEO_SEGMENTS == [c \in LineIds |-> CLIPS_DIR \o <<c, ".mp4">>]

\* line 199
sequence == <<"trump1", "zelensky", "trump2", "vance">>

\* os.path.abspath: a name that does not start at the root is taken from CWD
abspath(p) == IF p # <<>> /\ p[1] = "/" THEN p ELSE CWD \o p

\* the audio files on the disk when the job starts
AudioOnDisk == {STATIC_DIR \o <<"voices", "a.mp3">>}

\* os.path.exists for an audio artifact
exists(p) == abspath(p) \in AudioOnDisk

\* what a caller passes for one line: a site-relative name of a file that is
\* there, one of a file that is not, a name relative to the working directory
AudioPaths == { <<"/", "voices", "a.mp3">>,
                <<"/", "voices", "gone.mp3">>,
                <<"static", "voices", "a.mp3">> }

\* lines 187-189: a leading slash is removed and the rest joined to STATIC_DIR
Normalize(p) == IF p # <<>> /\ p[1] = "/" THEN STATIC_DIR \o Tail(p) ELSE p

\* line 178
temp_remix_dir(id) == TEMP_DIR \o <<"remix_", Format(id)>>

\* lines 182-183
output_filename(id) == <<"remix_", Format(id), ".mp4">>

output_path(id) == VIDEOS_DIR \o output_filename(id)

\* line 208
segment_output(id, c) == temp_remix_dir(id) \o <<c, "_with_audio.mp4">>

\* the names tempfile gives, in the system's directory of temporary files
TempNames == << <<"/", "tmp", "tmp1.txt">>, <<"/", "tmp", "tmp2.txt">> >>

\* line 120: tempfile.NamedTemporaryFile creates a file under a name no
\* file has
NamedTemporaryFile(fs) ==
    TempNames[CHOOSE i \in DOMAIN TempNames :
                /\ TempNames[i] \notin DOMAIN fs
                /\ \A j \in 1..(i - 1) : TempNames[j] \in DOMAIN fs]

NoManifest == <<>>

IsPrefix(d, p) == Len(d) <= Len(p) /\ SubSeq(p, 1, Len(d)) = d

\* file contents: what a file was made of
SegmentContent(video, audio) == [kind |-> "segment", from |-> <<video, audio>>]

ConcatContent(lines) == [kind |-> "concat", from |-> lines]

ManifestContent(lines) == [kind |-> "manifest", from |-> lines]

WriteFile(fs, p, c) == [q \in DOMAIN fs \cup {p} |-> IF q = p THEN c ELSE fs[q]]

RemoveFiles(fs, gone) == [q \in DOMAIN fs \ gone |-> fs[q]]

NoFiles == [q \in {} |-> ManifestContent(<<>>)]

NoResult == [none |-> "none"]

-----------------------------------------------------------------------------
(* process_video, lines 151-258 *)

Raise(e) ==
    /\ raisedError' = e
    /\ v_pc' = "except"

\* lines 173-183: the call; the job's temporary directory is made
process_video_call ==
    /\ program = "video"
    /\ v_pc = "idle"
    /\ \E id \in RemixIds, keys \in SUBSET LineIds :
        \E af \in [keys -> AudioPaths] :
            /\ remix_id' = id
            /\ audio_files' = af
            /\ pending' = keys
            /\ dirs' = dirs \cup {temp_remix_dir(id)}
    /\ v_pc' = "check"
    /\ UNCHANGED <<program, mainVars, jobVars, ttsVars, concat_list_path, idx, segment_videos, files, muxLog, lastMux,
                   concatArgs, concatReturned, copyLog, rmtreeFailed, raisedError,
                   result>>

\* lines 186-199: one entry of audio_files.items(), in the dict's own order:
\* its path is normalized in place and must exist; after the last entry the
\* mux loop starts
process_video_check_audio ==
    /\ v_pc = "check"
    /\ \/ /\ pending # {}
          /\ \E char \in pending :
               LET p == Normalize(audio_files[char]) IN
                 /\ audio_files' = [audio_files EXCEPT ![char] = p]
                 /\ IF exists(p)
                    THEN /\ pending' = pending \ {char}
                         /\ UNCHANGED <<v_pc, raisedError>>
                    ELSE /\ Raise("FileNotFoundError")
                         /\ UNCHANGED pending
          /\ UNCHANGED <<idx, segment_videos>>
       \/ /\ pending = {}
          /\ segment_videos' = <<>>
          /\ idx' = 1
          /\ v_pc' = "mux"
          /\ UNCHANGED <<audio_files, pending, raisedError>>
    /\ UNCHANGED <<program, mainVars, jobVars, ttsVars, concat_list_path, remix_id, dirs, files, muxLog, lastMux, concatArgs,
                   concatReturned, copyLog, rmtreeFailed, result>>

\* how long a clip or a voice line can be, in seconds
Durations == 1..MaxDuration

\* lines 41-54: the length ffprobe reports, 0 when ffprobe failed, printed
\* nothing or printed something float() rejects
get_media_duration(length, probed) == IF probed THEN length ELSE 0

\* line 70: `if audio_duration > video_duration`, on the probed durations
Extends(video_duration, audio_duration) == audio_duration > video_duration

\* line 79: tpad's stop_duration, on the probed durations
stop_duration(video_duration, audio_duration) == audio_duration - video_duration

\* lines 75-99: how long the segment ffmpeg writes is.  The extending command
\* holds the last frame for stop_duration after the `video` seconds of the
\* clip, the other command copies the clip; both end with -shortest, at the
\* end of the shorter of the picture and the `audio` seconds of the voice line
SegmentLength(video, audio, video_duration, audio_duration) ==
    IF Extends(video_duration, audio_duration)
    THEN Min(video + stop_duration(video_duration, audio_duration), audio)
    ELSE Min(video, audio)

\* no segment written yet
NoMux == [video |-> 0, audio |-> 0, video_duration |-> 0, audio_duration |-> 0]

\* lines 56-112: the files after create_video_with_audio returned `ok`
\* (ffmpeg ended with status 0, the segment is written) or False
create_video_with_audio(fs, video_path, audio_path, out, ok) ==
    IF ok THEN WriteFile(fs, out, SegmentContent(video_path, audio_path)) ELSE fs

\* a list that grows at the front
AppendSegment_Prepend(list, seg) == <<seg>> \o list

\* line 215: segment_videos.append(segment_output)
AppendSegment(list, seg) == Append(list, seg)

\* a loop that stops at the first segment that fails
NextIdx_Break(i, ok) == IF ok THEN i + 1 ELSE Len(sequence) + 1

\* lines 201 and 211-213: `continue` after a failed mux, like the end of the
\* body after a good one, goes to the next element of `sequence`
NextIdx(i, ok) == i + 1

\* lines 201-215: one iteration of the loop over `sequence`
process_video_mux ==
    /\ v_pc = "mux"
    /\ idx <= Len(sequence)
    /\ LET char == sequence[idx] IN
         IF char \notin DOMAIN audio_files
         THEN /\ Raise("KeyError")
              /\ UNCHANGED <<idx, segment_videos, files, muxLog, lastMux>>
         ELSE \E ok \in BOOLEAN, video, audio \in Durations,
                 vprobed, aprobed \in BOOLEAN :
                /\ ok => temp_remix_dir(remix_id) \in dirs
                /\ files' = create_video_with_audio(files, VIDEO_SEGMENTS[char],
                               audio_files[char], segment_output(remix_id, char), ok)
                /\ muxLog' = Append(muxLog, <<char, ok>>)
                /\ lastMux' =
                      IF ok
                      THEN [video |-> video, audio |-> audio,
                            video_duration |-> get_media_duration(video, vprobed),
                            audio_duration |-> get_media_duration(audio, aprobed)]
                      ELSE lastMux
                /\ segment_videos' =
                      IF ok THEN AppendSegment(segment_videos,
                                               segment_output(remix_id, char))
                            ELSE segment_videos
                /\ idx' = NextIdx(idx, ok)
                /\ UNCHANGED <<v_pc, raisedError>>
    /\ UNCHANGED <<program, mainVars, jobVars, ttsVars, concat_list_path, remix_id, audio_files, pending, dirs,
                   concatArgs, concatReturned, copyLog, rmtreeFailed, result>>

\* a test that is content with any segment
AllProcessed_Any(list) == list # <<>>

\* line 218: len(segment_videos) == len(sequence)
AllProcessed(list) == Len(list) = Len(sequence)

\* an else branch that goes on with an empty list
process_video_decide_NoRaise ==
    /\ v_pc = "mux"
    /\ idx > Len(sequence)
    /\ IF AllProcessed(segment_videos)
       THEN /\ concatArgs' = Append(concatArgs, segment_videos)
            /\ v_pc' = "concat_manifest"
       ELSE /\ v_pc' = IF segment_videos # <<>> THEN "copy_first" ELSE "cleanup"
            /\ UNCHANGED concatArgs
    /\ UNCHANGED <<program, mainVars, jobVars, ttsVars, concat_list_path, remix_id, audio_files, pending, idx,
                   segment_videos, dirs, files, muxLog, lastMux, concatReturned, copyLog,
                   rmtreeFailed, raisedError, result>>

\* lines 217-235: after the loop: concatenate, copy the first segment, or raise
process_video_decide ==
    /\ v_pc = "mux"
    /\ idx > Len(sequence)
    /\ IF AllProcessed(segment_videos)
       THEN /\ concatArgs' = Append(concatArgs, segment_videos)
            /\ v_pc' = "concat_manifest"
            /\ UNCHANGED raisedError
       ELSE /\ IF segment_videos # <<>>
               THEN v_pc' = "copy_first" /\ UNCHANGED raisedError
               ELSE Raise("No video segments were successfully processed")
            /\ UNCHANGED concatArgs
    /\ UNCHANGED <<program, mainVars, jobVars, ttsVars, concat_list_path, remix_id, audio_files, pending, idx,
                   segment_videos, dirs, files, muxLog, lastMux, concatReturned, copyLog,
                   rmtreeFailed, result>>

\* lines 122-123: one line per video, in the order of the list
RECURSIVE ManifestLines(_)
ManifestLines(video_paths) ==
    IF video_paths = <<>> THEN <<>>
    ELSE <<abspath(Head(video_paths))>> \o ManifestLines(Tail(video_paths))

\* a caller that goes on to the clean-up whatever concat_videos returned
AfterConcat_NoFallback(ret) ==
    /\ concatReturned' = Append(concatReturned, ret)
    /\ v_pc' = "cleanup"

\* what process_video does with concat_videos' return value (lines 223-228)
AfterConcat(ret) ==
    /\ concatReturned' = Append(concatReturned, ret)
    /\ v_pc' = IF ret THEN "cleanup" ELSE "copy_fallback"

\* lines 118-123: the manifest is created and written, or creating it raises
\* and line 149 returns False
concat_videos_manifest ==
    /\ v_pc = "concat_manifest"
    /\ LET video_paths == concatArgs[Len(concatArgs)] IN
         \/ /\ \E i \in DOMAIN TempNames : TempNames[i] \notin DOMAIN files
            /\ concat_list_path' = NamedTemporaryFile(files)
            /\ files' = WriteFile(files, NamedTemporaryFile(files),
                                  ManifestContent(ManifestLines(video_paths)))
            /\ v_pc' = "concat_run"
            /\ UNCHANGED concatReturned
         \/ /\ AfterConcat(FALSE)
            /\ UNCHANGED <<files, concat_list_path>>
    /\ UNCHANGED <<program, mainVars, jobVars, ttsVars, remix_id, audio_files, pending, idx,
                   segment_videos, dirs, muxLog, lastMux, concatArgs, copyLog, rmtreeFailed,
                   raisedError, result>>

\* ffmpeg can read the manifest and every file it lists
Readable(fs, list_path) ==
    /\ list_path \in DOMAIN fs
    /\ \A i \in DOMAIN fs[list_path].from : fs[list_path].from[i] \in DOMAIN fs

\* lines 125-149: ffmpeg joins the files the manifest lists; on status 0 the
\* manifest is unlinked and True returned; a CalledProcessError (line 144) or
\* another error of subprocess.run (line 147) returns False
concat_videos_run ==
    /\ v_pc = "concat_run"
    /\ \E outcome \in {"ok", "CalledProcessError", "Exception"} :
         IF outcome = "ok"
         THEN /\ Readable(files, concat_list_path)
              /\ files' = RemoveFiles(
                            WriteFile(files, output_path(remix_id),
                                      ConcatContent(files[concat_list_path].from)),
                            {concat_list_path})
              /\ AfterConcat(TRUE)
         ELSE /\ AfterConcat(FALSE)
              /\ UNCHANGED files
    /\ UNCHANGED <<program, mainVars, jobVars, ttsVars, concat_list_path, remix_id, audio_files, pending, idx,
                   segment_videos, dirs, muxLog, lastMux, concatArgs, copyLog, rmtreeFailed,
                   raisedError, result>>

\* a choice of the last segment of the list
FirstAvailable_Last(list) == list[Len(list)]

\* lines 228 and 233: segment_videos[0]
FirstAvailable(list) == list[1]

\* a copy whose failure is swallowed
Copy_Swallow(src) ==
    \E ok \in BOOLEAN :
        /\ copyLog' = Append(copyLog, <<src, ok>>)
        /\ ok => src \in DOMAIN files
        /\ files' = IF ok THEN WriteFile(files, output_path(remix_id), files[src])
                         ELSE files
        /\ v_pc' = "cleanup"
        /\ UNCHANGED raisedError

\* shutil.copy(src, output_path): the output becomes a copy of src, or it raises
Copy(src) ==
    \E ok \in BOOLEAN :
        /\ copyLog' = Append(copyLog, <<src, ok>>)
        /\ ok => src \in DOMAIN files
        /\ IF ok
           THEN /\ files' = WriteFile(files, output_path(remix_id), files[src])
                /\ v_pc' = "cleanup"
                /\ UNCHANGED raisedError
           ELSE /\ Raise("CopyError")
                /\ UNCHANGED files

\* line 228: the concatenation failed
process_video_copy_fallback ==
    /\ v_pc = "copy_fallback"
    /\ Copy(FirstAvailable(segment_videos))
    /\ UNCHANGED <<program, mainVars, jobVars, ttsVars, concat_list_path, remix_id, audio_files, pending, idx,
                   segment_videos, dirs, muxLog, lastMux, concatArgs, concatReturned,
                   rmtreeFailed, result>>

\* line 233: some segments failed
process_video_copy_first ==
    /\ v_pc = "copy_first"
    /\ Copy(FirstAvailable(segment_videos))
    /\ UNCHANGED <<program, mainVars, jobVars, ttsVars, concat_list_path, remix_id, audio_files, pending, idx,
                   segment_videos, dirs, muxLog, lastMux, concatArgs, concatReturned,
                   rmtreeFailed, result>>

\* lines 247-249
SuccessResult(id) == [videoUrl |-> <<"/", "videos">> \o output_filename(id)]

\* the name main() falls back to when it has no remix id (line 345)
ErrorResult_ErrorId(id, e) ==
    [videoUrl |-> <<"/", "videos", "remix_", "error", ".mp4">>, error |-> e]

\* lines 254-258
ErrorResult(id, e) ==
    [videoUrl |-> <<"/", "videos", "remix_", Format(id), ".mp4">>, error |-> e]

\* a return that annotates a job that did not concatenate four segments
process_video_cleanup_Annotate ==
    /\ v_pc = "cleanup"
    /\ \E ok \in BOOLEAN :
         IF ok
         THEN /\ dirs' = dirs \ {temp_remix_dir(remix_id)}
              /\ files' = RemoveFiles(files,
                             {q \in DOMAIN files : IsPrefix(temp_remix_dir(remix_id), q)})
              /\ UNCHANGED rmtreeFailed
         ELSE /\ rmtreeFailed' = TRUE
              /\ UNCHANGED <<dirs, files>>
    /\ result' = IF concatReturned = <<TRUE>>
                 THEN SuccessResult(remix_id)
                 ELSE ErrorResult(remix_id, "degraded")
    /\ v_pc' = "done"
    /\ UNCHANGED <<program, mainVars, jobVars, ttsVars, concat_list_path, remix_id, audio_files, pending, idx,
                   segment_videos, muxLog, lastMux, concatArgs, concatReturned, copyLog,
                   raisedError>>

\* lines 237-249: rmtree of the temporary directory (a failure is only
\* logged), then the return of the success result
process_video_cleanup ==
    /\ v_pc = "cleanup"
    /\ \E ok \in BOOLEAN :
         IF ok
         THEN /\ dirs' = dirs \ {temp_remix_dir(remix_id)}
              /\ files' = RemoveFiles(files,
                             {q \in DOMAIN files : IsPrefix(temp_remix_dir(remix_id), q)})
              /\ UNCHANGED rmtreeFailed
         ELSE /\ rmtreeFailed' = TRUE
              /\ UNCHANGED <<dirs, files>>
    /\ result' = SuccessResult(remix_id)
    /\ v_pc' = "done"
    /\ UNCHANGED <<program, mainVars, jobVars, ttsVars, concat_list_path, remix_id, audio_files, pending, idx,
                   segment_videos, muxLog, lastMux, concatArgs, concatReturned, copyLog,
                   raisedError>>

\* lines 251-258: the handler of every exception raised in the body
process_video_except ==
    /\ v_pc = "except"
    /\ result' = ErrorResult(remix_id, raisedError)
    /\ v_pc' = "done"
    /\ UNCHANGED <<program, mainVars, jobVars, ttsVars, concat_list_path, remix_id, audio_files, pending, idx,
                   segment_videos, dirs, files, muxLog, lastMux, concatArgs, concatReturned,
                   copyLog, rmtreeFailed, raisedError>>

NextVideo ==
    \/ process_video_call
    \/ process_video_check_audio
    \/ process_video_mux
    \/ process_video_decide
    \/ concat_videos_manifest
    \/ concat_videos_run
    \/ process_video_copy_fallback
    \/ process_video_copy_first
    \/ process_video_cleanup
    \/ process_video_except

-----------------------------------------------------------------------------
(* The specification *)

-----------------------------------------------------------------------------
(* The two scripts run from the command line *)

Scripts == {"tts_main", "video_main"}

\* the modules each script imports inside try/except ImportError
OptionalModules(script) ==
    IF script = "tts_main" THEN {"fish_audio_sdk", "pydub"} ELSE {"ffmpeg"}

\* sys.argv: no argument (or too many); an argument json.loads rejects; JSON
\* that is no object; an object without the fields asked for; an object with
\* which the processing raises (a script that is no dict, a log that cannot
\* be written); an object the processing takes
ArgvKinds == {"none", "invalid_json", "not_object", "missing_field",
              "raising", "ok"}

NoOutput == [stdout |-> <<>>, stderr |-> <<>>, log |-> <<>>]

\* print(..., file=stream): one more item on the stream
Emit(st, stream, item) == [st EXCEPT ![stream] = Append(@, item)]

\* print(message, file=sys.stderr); print(json.dumps({"error": ...})); sys.exit(1)
ErrorExit(st) == Emit(Emit(st, "stderr", "text"), "stdout", "json")

\* tts_processor.py lines 13 and 21, video_processor.py line 19: print() of
\* the warning, with no file argument
ImportWarning(st, missing) == Emit(st, "stdout", "text")

RECURSIVE ImportWarnings(_, _)
ImportWarnings(st, missing) ==
    IF missing = {} THEN st
    ELSE LET m == CHOOSE x \in missing : TRUE
         IN  ImportWarnings(ImportWarning(st, m), missing \ {m})

\* tts_processor.py lines 9-24
tts_import ==
    /\ program = "tts_main"
    /\ m_pc = "import"
    /\ FISH_SDK_AVAILABLE' = ("fish_audio_sdk" \in installed)
    /\ AudioSegment' = ("pydub" \in installed)
    /\ streams' = ImportWarnings(streams, OptionalModules(program) \ installed)
    /\ m_pc' = "main"
    /\ UNCHANGED <<program, jobVars, videoVars, argv, installed, sys_stdout, exit_code,
                   tts_pc, character, text_arg, text, api_key, max_retries,
                   attempt, filename, file_size, voices, outcomes, remoteCalls,
                   submitted, mockCalls, mockPath, returned, calls, earlier>>

\* video_processor.py lines 14-19
video_import ==
    /\ program = "video_main"
    /\ m_pc = "import"
    /\ streams' = ImportWarnings(streams, OptionalModules(program) \ installed)
    /\ m_pc' = "main"
    /\ UNCHANGED <<program, jobVars, ttsVars, videoVars, argv, installed, sys_stdout,
                   exit_code>>

\* tts lines 246-252, video lines 274-278: `if len(sys.argv) != 2`
main_check_argv ==
    /\ program \in Scripts
    /\ m_pc = "main"
    /\ IF argv = "none"
       THEN /\ streams' = ErrorExit(streams)
            /\ exit_code' = 1
            /\ m_pc' = "exit"
       ELSE /\ m_pc' = "parse"
            /\ UNCHANGED <<streams, exit_code>>
    /\ UNCHANGED <<program, jobVars, ttsVars, videoVars, argv, installed, sys_stdout>>

\* tts lines 254-264 and 298-305, video lines 280-292 and 336-357:
\* json.loads, the two .get and the test of the fields, with the handlers of
\* JSONDecodeError and of Exception (.get on what is no dict)
main_parse ==
    /\ program \in Scripts
    /\ m_pc = "parse"
    /\ IF argv \in {"invalid_json", "not_object", "missing_field"}
       THEN /\ streams' = ErrorExit(streams)
            /\ exit_code' = 1
            /\ m_pc' = "exit"
       ELSE /\ m_pc' = "open_log"
            /\ UNCHANGED <<streams, exit_code>>
    /\ UNCHANGED <<program, jobVars, ttsVars, videoVars, argv, installed, sys_stdout>>

\* tts lines 267-274, video lines 295-303: the log file is opened and
\* sys.stdout bound to it; open() raising goes to `except Exception`
main_open_log ==
    /\ program \in Scripts
    /\ m_pc = "open_log"
    /\ \E opened \in BOOLEAN :
         IF opened
         THEN /\ sys_stdout' = "log"
              /\ m_pc' = "process"
              /\ UNCHANGED <<streams, exit_code>>
         ELSE /\ streams' = ErrorExit(streams)
              /\ exit_code' = 1
              /\ m_pc' = "exit"
              /\ UNCHANGED sys_stdout
    /\ UNCHANGED <<program, jobVars, ttsVars, videoVars, argv, installed>>

\* tts lines 276-284, video lines 305-317: the processing, whose print()
\* go to sys.stdout, then sys.stdout restored and the result printed
main_process ==
    /\ program \in Scripts
    /\ m_pc = "process"
    /\ IF argv = "raising"
       THEN /\ streams' = Emit(streams, sys_stdout, "text")
            /\ m_pc' = "inner_except"
            /\ UNCHANGED sys_stdout
       ELSE /\ streams' = Emit(Emit(Emit(streams, sys_stdout, "text"),
                                    sys_stdout, "text"), "stdout", "json")
            /\ sys_stdout' = "stdout"
            /\ m_pc' = "finally"
    /\ UNCHANGED <<program, jobVars, ttsVars, videoVars, argv, installed, exit_code>>

\* tts lines 285-292 (ends with sys.exit(1)), video lines 318-330 (does not)
main_inner_except ==
    /\ program \in Scripts
    /\ m_pc = "inner_except"
    /\ streams' = Emit(Emit(streams, sys_stdout, "text"), "stdout", "json")
    /\ sys_stdout' = "stdout"
    /\ exit_code' = IF program = "tts_main" THEN 1 ELSE exit_code
    /\ m_pc' = "finally"
    /\ UNCHANGED <<program, jobVars, ttsVars, videoVars, argv, installed>>

\* tts lines 293-296, video lines 331-334: `finally`
main_finally ==
    /\ program \in Scripts
    /\ m_pc = "finally"
    /\ sys_stdout' = "stdout"
    /\ m_pc' = "exit"
    /\ UNCHANGED <<program, jobVars, ttsVars, videoVars, argv, installed, streams,
                   exit_code>>

NextMain ==
    \/ tts_import
    \/ video_import
    \/ main_check_argv
    \/ main_parse
    \/ main_open_log
    \/ main_process
    \/ main_inner_except
    \/ main_finally

\* the local variables of the running call of process_video
JobLocal ==
    [v_pc |-> v_pc, remix_id |-> remix_id, audio_files |-> audio_files,
     pending |-> pending, idx |-> idx, segment_videos |-> segment_videos,
     muxLog |-> muxLog, lastMux |-> lastMux,
     concat_list_path |-> concat_list_path, concatArgs |-> concatArgs,
     concatReturned |-> concatReturned, copyLog |-> copyLog,
     rmtreeFailed |-> rmtreeFailed, raisedError |-> raisedError,
     result |-> result]

\* a call that has not started
IdleJob ==
    [v_pc |-> "idle", remix_id |-> NoRemixId, audio_files |-> [c \in {} |-> <<>>],
     pending |-> {}, idx |-> 1, segment_videos |-> <<>>,
     muxLog |-> <<>>, lastMux |-> NoMux,
     concat_list_path |-> NoManifest, concatArgs |-> <<>>,
     concatReturned |-> <<>>, copyLog |-> <<>>,
     rmtreeFailed |-> FALSE, raisedError |-> "none",
     result |-> NoResult]

Init ==
    /\ program \in {"tts", "video", "tts_main", "video_main"}
    /\ FISH_SDK_AVAILABLE \in (IF program = "tts" THEN BOOLEAN ELSE {FALSE})
    /\ AudioSegment \in (IF program = "tts" THEN BOOLEAN ELSE {FALSE})
    /\ tts_pc = "idle"
    /\ character = ""
    /\ text_arg = 0
    /\ text = Text(0)
    /\ submitted = <<>>
    /\ calls = 0
    /\ earlier = NoEarlier
    /\ api_key = FALSE
    /\ max_retries = 0
    /\ attempt = 0
    /\ filename = NoFile
    /\ file_size = 0
    /\ voices = NoVoices
    /\ outcomes = <<>>
    /\ remoteCalls = 0
    /\ mockCalls = 0
    /\ mockPath = NoFile
    /\ returned = NoFile
    /\ v_pc = "idle"
    /\ remix_id = NoRemixId
    /\ audio_files = [c \in {} |-> <<>>]
    /\ pending = {}
    /\ idx = 1
    /\ segment_videos = <<>>
    /\ dirs = {}
    /\ files = NoFiles
    /\ muxLog = <<>>
    /\ lastMux = NoMux
    /\ concat_list_path = NoManifest
    /\ concatArgs = <<>>
    /\ concatReturned = <<>>
    /\ copyLog = <<>>
    /\ rmtreeFailed = FALSE
    /\ raisedError = "none"
    /\ result = NoResult
    /\ m_pc = "import"
    /\ argv \in (IF program \in Scripts THEN ArgvKinds ELSE {"none"})
    /\ installed \in (IF program \in Scripts THEN SUBSET OptionalModules(program)
                                            ELSE {{}})
    /\ sys_stdout = "stdout"
    /\ streams = NoOutput
    /\ exit_code = 0
    /\ job = 1
    /\ other = IdleJob

-----------------------------------------------------------------------------
(* Two jobs of process_video at a time, on the same file system *)

\* the scheduler takes the processor from one job and gives it to the other:
\* the local variables change places, the directories and files stay
switch_job ==
    /\ program = "video"
    /\ other' = JobLocal
    /\ job' = 3 - job
    /\ v_pc' = other.v_pc
    /\ remix_id' = other.remix_id
    /\ audio_files' = other.audio_files
    /\ pending' = other.pending
    /\ idx' = other.idx
    /\ segment_videos' = other.segment_videos
    /\ muxLog' = other.muxLog
    /\ lastMux' = other.lastMux
    /\ concat_list_path' = other.concat_list_path
    /\ concatArgs' = other.concatArgs
    /\ concatReturned' = other.concatReturned
    /\ copyLog' = other.copyLog
    /\ rmtreeFailed' = other.rmtreeFailed
    /\ raisedError' = other.raisedError
    /\ result' = other.result
    /\ UNCHANGED <<program, mainVars, ttsVars, dirs, files>>

\* what the two jobs are called with: the first with a string as remix id,
\* the second with another string or with the number of the same digits;
\* each with its own four voice lines
JobRemixIds(j) ==
    IF j = 1 THEN {StrId(RemixIdPool[1])}
             ELSE {StrId(RemixIdPool[2]), IntId(RemixIdPool[1])}

JobAudioFiles(j) ==
    [c \in LineIds |-> IF j = 1 THEN <<"/", "voices", "a.mp3">>
                                ELSE <<"static", "voices", "a.mp3">>]

\* the durations of the one clip and voice line the two jobs use
JobMux == [video |-> 1, audio |-> 1, video_duration |-> 1, audio_duration |-> 1]

JobInputs ==
    /\ v_pc = "idle" => /\ remix_id' \in JobRemixIds(job)
                        /\ audio_files' = JobAudioFiles(job)
    /\ lastMux' \in {NoMux, JobMux}

NextJobs == (NextVideo /\ JobInputs) \/ switch_job

InitJobs == Init /\ program = "video"

SpecJobs == InitJobs /\ [][NextJobs]_vars

Next == NextTTS \/ NextVideo \/ NextMain

Spec == Init /\ [][Next]_vars

\* the same, with a second, identical call of generate_tts
NextRepeat == NextTTS \/ generate_tts_again

InitRepeat == Init /\ program = "tts"

SpecRepeat == InitRepeat /\ [][NextRepeat]_vars

-----------------------------------------------------------------------------
(* Properties of generate_tts *)

NoPlausibleOutcome == \A i \in DOMAIN outcomes : outcomes[i] # "plausible"

FinalAttemptImplausible ==
    /\ max_retries > 0
    /\ Len(outcomes) = max_retries
    /\ outcomes[Len(outcomes)] = "implausible"

EveryAttemptRaised ==
    /\ Len(outcomes) = max_retries
    /\ \A i \in DOMAIN outcomes : outcomes[i] = "error"

\* C1: generate_tts never lets a synthesis failure out: whatever the remote
\* attempts did and whatever max_retries >= 0 is, the call goes on until it
\* returns a path under /voices, and when the plausibility check failed on the
\* final attempt or every attempt raised, that path is the one
\* generate_mock_tts returned.
C1_NeverPropagates ==
    /\ tts_pc # "raised"
    /\ tts_pc \notin {"idle", "returned"} => ENABLED NextTTS
    /\ tts_pc = "returned" =>
        /\ Len(returned) = 6
        /\ SubSeq(returned, 1, 2) = <<"/", "voices">>
        /\ returned[3] = character
        /\ (api_key /\ FISH_SDK_AVAILABLE /\ VoiceReference(character) # ""
              /\ (FinalAttemptImplausible \/ EveryAttemptRaised))
            => (mockCalls = 1 /\ returned = mockPath)

C1_Witness ==
    /\ tts_pc = "returned"
    /\ max_retries = 2
    /\ outcomes = <<"error", "implausible">>
    /\ returned = mockPath

\* C2: the remote service is tried at most max_retries times; a further
\* attempt is made only after an attempt that raised or was implausible, and
\* only while fewer than max_retries were made; the first plausible file is
\* returned at once, with no further attempt and no mock; the mock is called
\* at most once.
C2_BoundedRetries ==
    /\ remoteCalls <= max_retries
    /\ mockCalls <= 1
    /\ remoteCalls \in {Len(outcomes), Len(outcomes) + 1}
    /\ remoteCalls = Len(outcomes) + 1 => tts_pc \in {"check_size"}
    /\ tts_pc = "remote" => Len(outcomes) < max_retries
    /\ \A i \in DOMAIN outcomes :
        /\ i < Len(outcomes) => outcomes[i] \in {"error", "implausible"}
        /\ outcomes[i] = "plausible" =>
            /\ tts_pc = "returned"
            /\ returned = VoicesUrl(filename)
            /\ mockCalls = 0
            /\ remoteCalls = i

C2_Witness ==
    /\ tts_pc = "returned"
    /\ max_retries = 3
    /\ outcomes = <<"implausible", "error", "plausible">>
    /\ mockCalls = 0

-----------------------------------------------------------------------------
(* Properties of process_video and concat_videos *)

AllMuxed == Len(muxLog) = Len(sequence)

MuxOk == {i \in DOMAIN muxLog : muxLog[i][2]}

SomeButNotAll == AllMuxed /\ MuxOk # {} /\ MuxOk # DOMAIN muxLog

\* the earliest line-id of the canonical order whose mux returned True
FirstMuxed == sequence[CHOOSE i \in MuxOk : \A j \in MuxOk : i <= j]

HasError == "error" \in DOMAIN result

OutputWritten == output_path(remix_id) \in DOMAIN files

FallbackUrl == <<"/", "videos", "remix_", remix_id.text, ".mp4">>

\* the last shutil.copy of the job did not raise
CopySucceeded == copyLog # <<>> /\ copyLog[Len(copyLog)][2]

\* C3: when some but not all of the four segments muxed, concat_videos is not
\* called, the one copy made takes the segment of the earliest line-id (in the
\* order trump1, zelensky, trump2, vance) whose mux succeeded, and the output
\* file is a copy of that segment.
C3_CopyOfFirstMuxed ==
    SomeButNotAll =>
        /\ concatArgs = <<>>
        /\ Len(copyLog) <= 1
        /\ \A i \in DOMAIN copyLog :
             copyLog[i][1] = segment_output(remix_id, FirstMuxed)
        /\ OutputWritten =>
             files[output_path(remix_id)] =
                SegmentContent(VIDEO_SEGMENTS[FirstMuxed], audio_files[FirstMuxed])
        /\ v_pc = "done" => Len(copyLog) = 1
        /\ (v_pc = "done" /\ CopySucceeded) => OutputWritten

C3_Witness ==
    /\ v_pc = "done"
    /\ muxLog = <<<<"trump1", FALSE>>, <<"zelensky", FALSE>>,
                  <<"trump2", TRUE>>, <<"vance", TRUE>>>>
    /\ OutputWritten
    /\ files[output_path(remix_id)].from[1] = VIDEO_SEGMENTS["trump2"]

Degraded ==
    \/ SomeButNotAll /\ CopySucceeded
    \/ concatReturned = <<FALSE>> /\ CopySucceeded

C5_TempDirRemoved ==
    (v_pc = "done" /\ ~rmtreeFailed) => temp_remix_dir(remix_id) \notin dirs

\* C6: no segment is muxed unless an audio artifact is supplied and exists for
\* every one of the four line-ids; with one missing the job ends in an error
\* result and muxed nothing.
C6_NoMuxWithoutAllAudio ==
    /\ muxLog # <<>> =>
         \A c \in LineIds : c \in DOMAIN audio_files /\ exists(audio_files[c])
    /\ (v_pc = "done"
          /\ (raisedError = "FileNotFoundError"
                \/ \E c \in LineIds : c \notin DOMAIN audio_files))
        => (HasError /\ muxLog = <<>>)

\* C7: concat_videos has removed its manifest whenever it has returned,
\* whatever it returned.
C7_ManifestRemoved ==
    concatReturned # <<>> => concat_list_path \notin DOMAIN files

CanonicalSegments ==
    [i \in 1..4 |->
        TEMP_DIR \o <<"remix_", remix_id.text, sequence[i], "_with_audio.mp4">>]

\* C8: when all four segments muxed, concat_videos is handed the muxed
\* segments of trump1, zelensky, trump2, vance in that order, and the manifest
\* it writes lists exactly their absolute paths in that order.
C8_ConcatOrder ==
    /\ \A i \in DOMAIN concatArgs : concatArgs[i] = CanonicalSegments
    /\ (AllMuxed /\ MuxOk = DOMAIN muxLog /\ v_pc # "mux")
         => concatArgs = <<CanonicalSegments>>
    /\ concat_list_path \in DOMAIN files =>
         files[concat_list_path] = ManifestContent(CanonicalSegments)
    /\ (OutputWritten /\ concatReturned = <<TRUE>>) =>
         files[output_path(remix_id)] = ConcatContent(CanonicalSegments)

C8_Witness ==
    /\ v_pc = "concat_run"
    /\ concat_list_path \in DOMAIN files
    /\ Len(files[concat_list_path].from) = 4

\* C9: every result process_video returns holds videoUrl =
\* "/videos/remix_<remix_id>.mp4".
C9_VideoUrl ==
    v_pc = "done" =>
        /\ "videoUrl" \in DOMAIN result
        /\ result.videoUrl = FallbackUrl

C9_Witness ==
    /\ v_pc = "done"
    /\ raisedError = "KeyError"
    /\ result.videoUrl = FallbackUrl

\* C10: when all four muxes failed, nothing is concatenated, nothing is
\* copied, no output file is written, and the result carries `error` and the
\* videoUrl made from the remix id.
C10_AllFailed ==
    (AllMuxed /\ MuxOk = {}) =>
        /\ concatArgs = <<>>
        /\ copyLog = <<>>
        /\ ~OutputWritten
        /\ v_pc \in {"mux", "except", "done"}
        /\ v_pc = "done" => (HasError /\ result.videoUrl = FallbackUrl)

C10_Witness ==
    /\ v_pc = "done"
    /\ AllMuxed
    /\ MuxOk = {}
    /\ HasError


-----------------------------------------------------------------------------
(* Further properties of generate_tts *)

\* C11: without credentials, or for a character with no entry in the voice
\* mapping, generate_tts makes no request to the remote service, raises
\* nothing, and returns what generate_mock_tts returned.
C11_NoRemoteWithoutConfig ==
    (tts_pc # "idle" /\ (~api_key \/ character \notin DOMAIN FISH_VOICE_MAPPING)) =>
        /\ remoteCalls = 0
        /\ outcomes = <<>>
        /\ tts_pc \notin {"remote", "check_size", "except", "raised"}
        /\ tts_pc = "returned" => (mockCalls = 1 /\ returned = mockPath)

C11_Witness ==
    /\ tts_pc = "returned"
    /\ api_key
    /\ FISH_SDK_AVAILABLE
    /\ character = "narrator"
    /\ max_retries = 2
    /\ returned = mockPath

-----------------------------------------------------------------------------
(* Further properties of process_video *)

MuxedChars == [i \in DOMAIN muxLog |-> muxLog[i][1]]

\* the segments of the line-ids whose mux returned True, in the order of muxLog
RECURSIVE MuxedSegments(_)
MuxedSegments(log) ==
    IF log = <<>> THEN <<>>
    ELSE (IF Head(log)[2] THEN <<TEMP_DIR \o <<"remix_", remix_id.text, Head(log)[1],
                                               "_with_audio.mp4">>>>
                          ELSE <<>>) \o MuxedSegments(Tail(log))

\* C19: a mux that returns failure does not stop the loop: the muxer is called
\* once per line-id in the order trump1, zelensky, trump2, vance, whatever the
\* earlier calls returned, and the list of successful segments is a
\* subsequence of that order.
C19_LoopContinues ==
    /\ Len(muxLog) <= Len(sequence)
    /\ MuxedChars = SubSeq(sequence, 1, Len(muxLog))
    /\ v_pc = "mux" => idx = Len(muxLog) + 1
    /\ (LineIds \subseteq DOMAIN audio_files /\ v_pc \notin {"idle", "check", "mux"}
          /\ raisedError # "FileNotFoundError")
         => MuxedChars = sequence
    /\ v_pc \notin {"idle", "check"} => segment_videos = MuxedSegments(muxLog)

C19_Witness ==
    /\ v_pc = "done"
    /\ muxLog = <<<<"trump1", FALSE>>, <<"zelensky", TRUE>>,
                  <<"trump2", FALSE>>, <<"vance", TRUE>>>>
    /\ Len(segment_videos) = 2

\* C20: concat_videos is called at most once in a job, only after all four
\* muxes were attempted and only when all four succeeded, never on a partial
\* list.
C20_ConcatOnlyComplete ==
    /\ Len(concatArgs) <= 1
    /\ concatArgs # <<>> =>
        /\ AllMuxed
        /\ MuxOk = DOMAIN muxLog
        /\ Len(concatArgs[1]) = Len(sequence)

C20_Witness ==
    /\ concatArgs # <<>>
    /\ concatReturned = <<TRUE>>
    /\ v_pc = "done"


-----------------------------------------------------------------------------
(* generate_tts: the files it leaves, the text it submits, the mock's audio *)

\* the files of VOICES_DIR that a remote attempt wrote and the plausibility
\* check of line 121 rejects
SuspectFiles ==
    {f \in DOMAIN voices :
        voices[f].kind = "remote" /\ Suspicious(voices[f].size, TextLen(text))}

\* C12: whenever the plausibility check fails, on a non-final attempt and on
\* the final one alike, the suspect file is discarded: none is left in the
\* voices area when generate_tts returns.
C12_SuspectDiscarded ==
    tts_pc = "returned" => SuspectFiles = {}

\* the text of the caller after lines 68-72, written out
ExpectedSubmitted ==
    IF text_arg <= 200 THEN [kept |-> text_arg, dots |-> 0]
                       ELSE [kept |-> 197, dots |-> 3]

\* C13: the text of every request to the provider is the caller's text when
\* that has at most 200 characters, and otherwise its first 197 characters
\* followed by "...", 200 characters in all; every retry submits the same text.
C13_SubmittedText ==
    /\ Len(submitted) = remoteCalls
    /\ \A i \in DOMAIN submitted :
        /\ submitted[i] = ExpectedSubmitted
        /\ text_arg > 200 => submitted[i].kept + submitted[i].dots = 200
        /\ submitted[i] = submitted[1]

C13_Witness ==
    /\ Len(submitted) = 2
    /\ text_arg = 250
    /\ submitted[2] = [kept |-> 197, dots |-> 3]

\* the silent audio the mock of this call wrote, if it wrote one
MockAudio ==
    {f \in DOMAIN voices :
        /\ mockCalls = 1
        /\ mockPath = VoicesUrl(f)
        /\ voices[f].kind = "silence"}

\* C14: the silent audio generate_mock_tts writes lasts at least one second
\* and at least as long as the audio for any shorter text, down to the empty
\* text.
C14_MockDuration ==
    \A f \in MockAudio :
        /\ voices[f].duration_ms >= 1000
        /\ \A n \in 0..TextLen(text) :
             /\ duration_ms(n) >= 1000
             /\ duration_ms(n) <= voices[f].duration_ms
             /\ n > 0 => duration_ms(n - 1) <= duration_ms(n)

C14_Witness ==
    /\ tts_pc = "returned"
    /\ text_arg = 0
    /\ \E f \in MockAudio : voices[f].duration_ms = 1000


-----------------------------------------------------------------------------
(* Two calls of generate_tts with the same character and text *)

BothViaMock == earlier.mock /\ mockCalls = 1

\* C18: two calls with the same (character, text) that both went through
\* the mock, and returned different file names, leave
\* artifacts that last equally long.
C18_EqualDurations ==
    (calls = 2 /\ tts_pc = "returned" /\ returned # earlier.returned
        /\ BothViaMock /\ earlier.content.kind = "silence"
        /\ ContentOf(voices, returned).kind = "silence")
      => ContentOf(voices, returned).duration_ms = earlier.content.duration_ms

\* C18, the names: two calls with the same (character, text) never return the
\* same file name.  (The eight characters kept of uuid4 are drawn at random
\* per call and no call looks whether the name is taken.)
C18_DistinctNames ==
    (calls = 2 /\ tts_pc = "returned") => returned # earlier.returned

-----------------------------------------------------------------------------
(* The length of a muxed segment *)

\* the segment create_video_with_audio wrote last
Muxed == lastMux # NoMux

\* C15: every segment create_video_with_audio writes is as long as its voice
\* line; when the voice line is longer than the clip the extending command is
\* the one run, and it extends the clip by exactly audio minus video.
C15_SegmentAsLongAsAudio ==
    Muxed =>
        /\ SegmentLength(lastMux.video, lastMux.audio,
                         lastMux.video_duration, lastMux.audio_duration)
             = lastMux.audio
        /\ lastMux.audio > lastMux.video =>
             /\ Extends(lastMux.video_duration, lastMux.audio_duration)
             /\ stop_duration(lastMux.video_duration, lastMux.audio_duration)
                  = lastMux.audio - lastMux.video

\* the same with both probes reporting the lengths
C15_ProbedSegmentAsLongAsAudio ==
    (Muxed /\ lastMux.video_duration = lastMux.video
           /\ lastMux.audio_duration = lastMux.audio)
      => C15_SegmentAsLongAsAudio

-----------------------------------------------------------------------------
(* What a run of a script writes to its standard output *)

\* C17: when a run of tts_processor.py or video_processor.py ends, its
\* standard output holds exactly one JSON object and nothing else.
C17_StdoutOneJson ==
    (program \in Scripts /\ m_pc = "exit") => streams.stdout = <<"json">>

\* the same for the runs that could import every optional module
C17_StdoutOneJsonAllInstalled ==
    (program \in Scripts /\ m_pc = "exit"
        /\ installed = OptionalModules(program))
      => streams.stdout = <<"json">>

-----------------------------------------------------------------------------
(* Two jobs with different remix ids *)

\* the paths a job has created, written or removed so far: its directory, the
\* segments it muxed, its manifest until the job unlinks it (the name is then
\* the system's to give again) and its output
Touched(j) ==
    (IF j.v_pc = "idle" THEN {} ELSE {temp_remix_dir(j.remix_id)})
    \cup {segment_output(j.remix_id, j.muxLog[i][1]) :
             i \in {k \in DOMAIN j.muxLog : j.muxLog[k][2]}}
    \cup (IF \/ j.concat_list_path = NoManifest
             \/ \E i \in DOMAIN j.concatReturned : j.concatReturned[i]
          THEN {} ELSE {j.concat_list_path})
    \cup (IF \/ \E i \in DOMAIN j.concatReturned : j.concatReturned[i]
             \/ \E i \in DOMAIN j.copyLog : j.copyLog[i][2]
          THEN {output_path(j.remix_id)} ELSE {})

\* until the job removes its directory, every segment it muxed is there and is
\* the clip with this job's voice line
OwnSegmentsIntact(j) ==
    j.v_pc \notin {"idle", "done"} =>
        \A i \in DOMAIN j.muxLog :
            j.muxLog[i][2] =>
                LET c == j.muxLog[i][1]
                    seg == segment_output(j.remix_id, c)
                IN  /\ seg \in DOMAIN files
                    /\ files[seg] = SegmentContent(VIDEO_SEGMENTS[c], j.audio_files[c])

BothStarted == v_pc # "idle" /\ other.v_pc # "idle"

\* C16: two jobs with different remix ids, however interleaved, touch disjoint
\* sets of paths, and each finds the segments it muxed as it left them.
C16_DisjointPaths ==
    (BothStarted /\ remix_id # other.remix_id) =>
        /\ Touched(JobLocal) \cap Touched(other) = {}
        /\ OwnSegmentsIntact(JobLocal)
        /\ OwnSegmentsIntact(other)

\* the same for two remix ids whose digits differ
C16_DisjointPathsOfDifferentTexts ==
    (BothStarted /\ Format(remix_id) # Format(other.remix_id)) =>
        /\ Touched(JobLocal) \cap Touched(other) = {}
        /\ OwnSegmentsIntact(JobLocal)
        /\ OwnSegmentsIntact(other)

-----------------------------------------------------------------------------
(* The fallback after a failed concatenation *)

\* C21: when all four segments muxed and concat_videos returned False,
\* process_video copies the segment of trump1 to the job's output path; the
\* copy made, the output is that segment and the job returns the output's
\* url with no error.
C21_ConcatFailureFallsBack ==
    concatReturned = <<FALSE>> =>
        /\ AllMuxed /\ MuxOk = DOMAIN muxLog
        /\ v_pc \in {"copy_fallback", "cleanup", "except", "done"}
        /\ v_pc # "copy_fallback" =>
             /\ Len(copyLog) = 1
             /\ copyLog[1][1] = CanonicalSegments[1]
        /\ CopySucceeded =>
             /\ OutputWritten
             /\ files[output_path(remix_id)] =
                  SegmentContent(VIDEO_SEGMENTS["trump1"], audio_files["trump1"])
        /\ (v_pc = "done" /\ CopySucceeded) => result = [videoUrl |-> FallbackUrl]

C21_Witness ==
    /\ v_pc = "done"
    /\ concatReturned = <<FALSE>>
    /\ CopySucceeded
    /\ result = [videoUrl |-> FallbackUrl]
    /\ files[output_path(remix_id)].kind = "segment"

-----------------------------------------------------------------------------
(* The probe's soft failure *)

\* a probe of the last mux returned 0 for a file that lasts longer
VideoProbeFailed == lastMux.video_duration = 0 /\ lastMux.video > 0

AudioProbeFailed == lastMux.audio_duration = 0 /\ lastMux.audio > 0

\* C22: a probe that returned 0 without raising, for the clip or for the
\* voice line, never sends create_video_with_audio into the branch that
\* extends the clip: the copying command is the one run.
C22_SoftFailureNeverExtends ==
    (Muxed /\ (VideoProbeFailed \/ AudioProbeFailed)) =>
        ~Extends(lastMux.video_duration, lastMux.audio_duration)

\* the same for the probe of the voice line
C22_AudioSoftFailureNeverExtends ==
    (Muxed /\ AudioProbeFailed) =>
        ~Extends(lastMux.video_duration, lastMux.audio_duration)

-----------------------------------------------------------------------------
(* The files a call of generate_tts leaves *)

\* the files of VOICES_DIR other than the one the call returned
LeftBehind == {f \in DOMAIN voices : VoicesUrl(f) # returned}

\* C23: when generate_tts has returned, the only file of the call in the
\* voices area is the one the returned path names: nothing remains of an
\* attempt that raised while the stream was written or that was rejected.
C23_OnlyReturnedFileRemains ==
    tts_pc = "returned" => LeftBehind = {}

\* the same for the calls whose attempts all ended before a file was opened
\* or were accepted
C23_OnlyReturnedFileRemainsNoWrite ==
    (tts_pc = "returned"
        /\ \A f \in DOMAIN voices : voices[f].kind \notin {"partial", "remote"})
      => LeftBehind = {}

-----------------------------------------------------------------------------
(* What a result without `error` stands for *)

\* the job's concatenation returned True
ConcatSucceeded == concatReturned # <<>> /\ concatReturned[Len(concatReturned)]

\* C24: a result without `error` names the job's output, and the job wrote
\* that file in this call, by a concatenation that returned True or by a copy
\* of a segment it muxed that did not raise; a copy that raised, after a
\* failed concatenation or in its place, ends in a result with `error`.
C24_NoErrorMeansWritten ==
    v_pc = "done" =>
        /\ ~HasError =>
             /\ result = [videoUrl |-> FallbackUrl]
             /\ ConcatSucceeded \/ CopySucceeded
             /\ OutputWritten
             /\ ConcatSucceeded =>
                  files[output_path(remix_id)] = ConcatContent(CanonicalSegments)
             /\ CopySucceeded =>
                  /\ files[output_path(remix_id)].kind = "segment"
                  /\ \E i \in MuxOk :
                       files[output_path(remix_id)] =
                          SegmentContent(VIDEO_SEGMENTS[sequence[i]],
                                         audio_files[sequence[i]])
        /\ (copyLog # <<>> /\ ~CopySucceeded) => HasError

C24_Witness ==
    /\ v_pc = "done"
    /\ ~HasError
    /\ SomeButNotAll
    /\ CopySucceeded
    /\ OutputWritten
    /\ files[output_path(remix_id)].kind = "segment"

====
